---- MODULE Spec2Model ----
(***************************************************************************)
(* Model of unifi-isp-metrics: the pivot/reshape engine                    *)
(* (generate_charts.py, prepare_chart_data), the dashboard generator       *)
(* (generate_html_dashboard) and the collector (unifi_isp_metrics.py:      *)
(* get_all_sites, build_site_queries, query_isp_metrics, main).            *)
(*                                                                         *)
(* Strings are sequences of characters: site identifiers and display names *)
(* are sequences of one-character strings, timestamps are sequences of     *)
(* character codes (so that the lexicographic order of sorted() can be     *)
(* computed).  JSON numbers are exact rationals [n, d]; JSON null is Null. *)
(* A JSON object is a function from its keys, a Python dict that keeps     *)
(* insertion order is a sequence of [k, v] entries.  A continuation token  *)
(* is an opaque string, kept as [token |-> ...].  The server and the file  *)
(* system are the environment: each request is answered by any answer of a *)
(* small set, and log records the requests and file writes of a run.       *)
(***************************************************************************)
EXTENDS Integers, Sequences, FiniteSets, TLC

VARIABLES metrics, sites_data, chart_data, all_timestamps, site_id_to_name,
          name_counts, idx, pc, run, first

\* the command line, the position in main / generate_html_dashboard, the
\* locals of get_all_sites and main, the files, and the record of a run
VARIABLES args, step, all_sites, next_token, sites, site_queries, isp_metrics,
          files, log

pivotvars == <<metrics, sites_data, chart_data, all_timestamps, site_id_to_name,
               name_counts, idx, pc, run, first>>

appvars == <<args, step, all_sites, next_token, sites, site_queries, isp_metrics,
             files, log>>

vars == <<pivotvars, appvars>>

-----------------------------------------------------------------------------
(* Bounds of the explored inputs *)

MaxNameSites == 3

MaxPeriods == 3

-----------------------------------------------------------------------------
(* Program constants *)

PrefixLen == 8

Kilo == 1000

SiteDash == <<"S", "i", "t", "e", "-">>

Unknown == <<"U", "n", "k", "n", "o", "w", "n">>

-----------------------------------------------------------------------------
(* JSON values *)

Null == [null |-> TRUE]

Num(n, d) == [n |-> n, d |-> d]

Zero == Num(0, 1)

Abs(a) == IF a < 0 THEN -a ELSE a

RECURSIVE GCD(_, _)
GCD(a, b) == IF b = 0 THEN a ELSE GCD(b, a % b)

\* the value of the fraction n/d, in lowest terms with a positive denominator
Normalize(n, d) ==
    LET g == GCD(Abs(n), Abs(d))
        s == IF d < 0 THEN -1 ELSE 1
    IN  Num(s * (n \div g), s * (d \div g))

\* Python truthiness of a JSON number or null
Truthy(v) == v # Null /\ v.n # 0

\* dict.get(key, default)
Get(obj, key, default) == IF key \in DOMAIN obj THEN obj[key] ELSE default

EmptyObj == <<>>

-----------------------------------------------------------------------------
(* Strings *)

Min(a, b) == IF a < b THEN a ELSE b

\* s[:n]
Slice(s, n) == SubSeq(s, 1, Min(Len(s), n))

\* a < b for strings (lexicographic on character codes)
RECURSIVE LexLess(_, _)
LexLess(a, b) ==
    IF b = <<>> THEN FALSE
    ELSE IF a = <<>> THEN TRUE
    ELSE IF Head(a) # Head(b) THEN Head(a) < Head(b)
    ELSE LexLess(Tail(a), Tail(b))

-----------------------------------------------------------------------------
(* Insertion-ordered dicts *)

DictHas(d, k) == \E i \in 1..Len(d) : d[i].k = k

DictGet(d, k) == d[CHOOSE i \in 1..Len(d) : d[i].k = k].v

\* d[k] = v : an existing key keeps its position, a new key goes last
DictSet(d, k, v) ==
    IF DictHas(d, k)
    THEN [i \in 1..Len(d) |-> IF d[i].k = k THEN [k |-> k, v |-> v] ELSE d[i]]
    ELSE Append(d, [k |-> k, v |-> v])

-----------------------------------------------------------------------------
(* prepare_chart_data: first pass, naming *)

\* site_metric.get('siteId', 'Unknown')
SiteIdOf(site_metric) == Get(site_metric, "siteId", Unknown)

\* site_metric.get('periods', [])
PeriodsOf(site_metric) == Get(site_metric, "periods", <<>>)

\* f"Site-{site_id[:8]}"
FallbackName(site_id) == SiteDash \o Slice(site_id, PrefixLen)

\* f"{site_name} ({site_id[:8]})"
SuffixedName(site_name, site_id) ==
    site_name \o <<" ", "(">> \o Slice(site_id, PrefixLen) \o <<")">>

\* BaseName with the identifier left whole in the fallback name
BaseNameWholeId(site_id, lookup) ==
    IF site_id \in DOMAIN lookup THEN lookup[site_id] ELSE SiteDash \o site_id

\* sites_data.get(site_id, None), replaced by the fallback when it is None
BaseName(site_id, lookup) ==
    IF site_id \in DOMAIN lookup THEN lookup[site_id] ELSE FallbackName(site_id)

\* UniqueName with the suffix starting one occurrence late
UniqueNameLate(site_name, site_id, counts) ==
    IF site_name \in DOMAIN counts /\ counts[site_name] > 1
    THEN SuffixedName(site_name, site_id)
    ELSE site_name

\* the name_counts test: a name seen before gets the identifier suffix
UniqueName(site_name, site_id, counts) ==
    IF site_name \in DOMAIN counts
    THEN SuffixedName(site_name, site_id)
    ELSE site_name

\* name_counts[site_name] += 1, or = 1 for a new name
CountName(site_name, counts) ==
    IF site_name \in DOMAIN counts
    THEN (site_name :> (counts[site_name] + 1)) @@ counts
    ELSE (site_name :> 1) @@ counts

\* AppendSite that skips a name already listed
AppendSiteIfNew(site_list, unique_name) ==
    IF \E i \in 1..Len(site_list) : site_list[i] = unique_name
    THEN site_list
    ELSE Append(site_list, unique_name)

\* chart_data['sites'].append(unique_name)
AppendSite(site_list, unique_name) == Append(site_list, unique_name)

\* period.get('metricTime', '')
MetricTime(period) == Get(period, "metricTime", <<>>)

\* the timestamps one record adds to all_timestamps: the non-empty ones
RecordTimestamps(periods) ==
    {MetricTime(periods[i]) : i \in {j \in 1..Len(periods) : MetricTime(periods[j]) # <<>>}}

-----------------------------------------------------------------------------
(* prepare_chart_data: the timestamp axis *)

\* the orders in which list(a_set) may enumerate a set
Listings(S) ==
    {l \in [1..Cardinality(S) -> S] : \A i, j \in 1..Cardinality(S) : l[i] = l[j] => i = j}

RECURSIVE InsertSorted(_, _)
InsertSorted(x, sorted) ==
    IF sorted = <<>> THEN <<x>>
    ELSE IF LexLess(x, Head(sorted)) THEN <<x>> \o sorted
    ELSE <<Head(sorted)>> \o InsertSorted(x, Tail(sorted))

RECURSIVE SortList(_)
SortList(l) == IF l = <<>> THEN <<>> ELSE InsertSorted(Head(l), SortList(Tail(l)))

\* SortedTimestamps without the sort
UnsortedTimestamps(listing) == listing

\* sorted(list(all_timestamps)), for one enumeration order of the set
SortedTimestamps(listing) == SortList(listing)

-----------------------------------------------------------------------------
(* prepare_chart_data: second pass, value extraction *)

\* WanData that reads the nested shape only
WanDataNestedOnly(period) ==
    IF "data" \in DOMAIN period /\ "wan" \in DOMAIN period["data"]
    THEN period["data"]["wan"]
    ELSE EmptyObj

\* the measurement bundle of a period: data.wan if present, else data, else {}
WanData(period) ==
    IF "data" \in DOMAIN period
    THEN IF "wan" \in DOMAIN period["data"]
         THEN period["data"]["wan"]
         ELSE period["data"]
    ELSE EmptyObj

\* TimestampData that keeps the first period of a timestamp
RECURSIVE TimestampDataFirstWins(_)
TimestampDataFirstWins(periods) ==
    IF periods = <<>> THEN EmptyObj
    ELSE LET n      == Len(periods)
             before == TimestampDataFirstWins(SubSeq(periods, 1, n - 1))
             ts     == MetricTime(periods[n])
         IN  IF ts # <<>> THEN before @@ (ts :> WanData(periods[n])) ELSE before

\* timestamp_data after the periods loop: later periods overwrite earlier ones
RECURSIVE TimestampData(_)
TimestampData(periods) ==
    IF periods = <<>> THEN EmptyObj
    ELSE LET n      == Len(periods)
             before == TimestampData(SubSeq(periods, 1, n - 1))
             ts     == MetricTime(periods[n])
         IN  IF ts # <<>> THEN (ts :> WanData(periods[n])) @@ before ELSE before

\* NotNoneOrZero as wan_data.get(key, 0): a null is passed on
GetOrZero(wan_data, key) == Get(wan_data, key, Zero)

\* wan_data.get(key) if wan_data.get(key) is not None else 0
NotNoneOrZero(wan_data, key) ==
    IF Get(wan_data, key, Null) # Null THEN wan_data[key] ELSE Zero

\* Div1000 with negative rates clamped to 0
Div1000Clamped(kbps) ==
    IF kbps.n < 0 THEN Zero ELSE Normalize(kbps.n, kbps.d * Kilo)

\* kbps / 1000
Div1000(kbps) == Normalize(kbps.n, kbps.d * Kilo)

\* (kbps / 1000) if kbps else 0, with kbps = wan_data.get(key, 0)
Mbps(wan_data, key) ==
    LET kbps == Get(wan_data, key, Zero)
    IN  IF Truthy(kbps) THEN Div1000(kbps) ELSE Zero

\* the bundle the fill loop reads at position i of the axis
BundleAt(timestamp_data, axis, i) == Get(timestamp_data, axis[i], EmptyObj)

\* the fill loop reads a field of a null bundle: wan_data.get raises AttributeError
FillRaises(td, axis) == \E i \in 1..Len(axis) : BundleAt(td, axis, i) = Null

\* the five lists of one site after the fill loop over the axis
FillLatency(td, axis) == [i \in 1..Len(axis) |-> NotNoneOrZero(BundleAt(td, axis, i), "avgLatency")]

FillDownload(td, axis) == [i \in 1..Len(axis) |-> Mbps(BundleAt(td, axis, i), "download_kbps")]

FillUpload(td, axis) == [i \in 1..Len(axis) |-> Mbps(BundleAt(td, axis, i), "upload_kbps")]

FillPacketLoss(td, axis) == [i \in 1..Len(axis) |-> NotNoneOrZero(BundleAt(td, axis, i), "packetLoss")]

FillUptime(td, axis) == [i \in 1..Len(axis) |-> NotNoneOrZero(BundleAt(td, axis, i), "uptime")]

\* Pass2Name that always builds the fallback name
Pass2NameFallback(site_id, id_to_name) == FallbackName(site_id)

\* site_id_to_name.get(site_id), replaced by the fallback when it is None
Pass2Name(site_id, id_to_name) ==
    IF site_id \in DOMAIN id_to_name THEN id_to_name[site_id] ELSE FallbackName(site_id)

-----------------------------------------------------------------------------
(* The explored inputs *)

\* "aaaaaaaa-1111"
IdA == <<"a", "a", "a", "a", "a", "a", "a", "a", "-", "1", "1", "1", "1">>

\* "bbbbbbbb-2222"
IdB == <<"b", "b", "b", "b", "b", "b", "b", "b", "-", "2", "2", "2", "2">>

\* "aaaaaaaa-3333": the same first eight characters as IdA
IdA3 == <<"a", "a", "a", "a", "a", "a", "a", "a", "-", "3", "3", "3", "3">>

\* "ab": shorter than the prefix
IdShort == <<"a", "b">>

Office == <<"O", "f", "f", "i", "c", "e">>

Lab == <<"L", "a", "b">>

\* timestamps "1" < "10" < "2" in lexicographic order
T1 == <<1>>

T10 == <<1, 0>>

T2 == <<2>>

\* {avgLatency: 12.5, download_kbps: 50000}
B1 == ("avgLatency" :> Num(25, 2)) @@ ("download_kbps" :> Num(50000, 1))

\* {avgLatency: 0, download_kbps: 0, upload_kbps: null, packetLoss: null, uptime: 99.5}
B2 == ("avgLatency" :> Num(0, 1)) @@ ("download_kbps" :> Num(0, 1)) @@ ("upload_kbps" :> Null)
      @@ ("packetLoss" :> Null) @@ ("uptime" :> Num(199, 2))

\* {avgLatency: null, download_kbps: -2000, upload_kbps: 500, packetLoss: 3, uptime: 0}
B3 == ("avgLatency" :> Null) @@ ("download_kbps" :> Num(-2000, 1)) @@ ("upload_kbps" :> Num(500, 1))
      @@ ("packetLoss" :> Num(3, 1)) @@ ("uptime" :> Num(0, 1))

Period(ts, data) == ("metricTime" :> ts) @@ ("data" :> data)

PeriodSet ==
    { Period(T10, "wan" :> B1),
      Period(T10, B3),
      Period(T2, "wan" :> B2),
      Period(T2, B1),
      "metricTime" :> T1,
      Period(<<>>, B3),
      "data" :> ("wan" :> B1) }

SeqsUpTo(S, n) == UNION {[1..k -> S] : k \in 0..n}

Record(site_id, periods) == ("siteId" :> site_id) @@ ("periods" :> periods)

\* records that differ in their identifier: present, repeated, short, absent
NameRecords ==
    { "siteId" :> IdA, "siteId" :> IdB, "siteId" :> IdA3, "siteId" :> IdShort,
      "periods" :> <<Period(T2, "wan" :> B2)>>,
      Record(IdA, <<Period(T10, "wan" :> B1)>>) }

NameInputs == SeqsUpTo(NameRecords, MaxNameSites)

\* one site with any periods, alone or beside a second site with at most one
ValueInputs ==
    LET rich  == {Record(IdA, ps) : ps \in SeqsUpTo(PeriodSet, MaxPeriods)}
        other == {Record(IdB, <<>>), Record(IdB, <<Period(T10, B3)>>),
                  Record(IdB, <<Period(T2, "wan" :> B2)>>)}
    IN  {<<r>> : r \in rich}
        \cup {<<r, o>> : r \in rich, o \in other}
        \cup {<<o, r>> : r \in rich, o \in other}

LookupSet ==
    { EmptyObj,
      (IdA :> Office) @@ (IdB :> Office) @@ (IdA3 :> Office),
      (IdA :> Office) @@ (IdB :> Lab),
      (IdShort :> FallbackName(IdA)) @@ (IdB :> Lab) }

\* the lookups tried with the inputs that vary the periods
ValueLookupSet == {EmptyObj, (IdA :> Office) @@ (IdB :> Office)}

\* the explored (metrics, sites_data) pairs
Inputs == (NameInputs \X LookupSet) \cup (ValueInputs \X ValueLookupSet)

-----------------------------------------------------------------------------
(* prepare_chart_data as a state machine *)

\* the chart_data literal the function starts from
EmptyChart ==
    [sites |-> <<>>, timestamps |-> <<>>, latency |-> <<>>, download |-> <<>>,
     upload |-> <<>>, packet_loss |-> <<>>, uptime |-> <<>>]

\* Enter with name_counts kept from the previous call
EnterKeepingCounts ==
    /\ chart_data' = EmptyChart
    /\ all_timestamps' = {}
    /\ site_id_to_name' = EmptyObj
    /\ name_counts' = name_counts
    /\ idx' = 1
    /\ pc' = "pass1"

\* the state at the entry of a call
Enter ==
    /\ chart_data' = EmptyChart
    /\ all_timestamps' = {}
    /\ site_id_to_name' = EmptyObj
    /\ name_counts' = EmptyObj
    /\ idx' = 1
    /\ pc' = "pass1"

Init ==
    /\ \E input \in Inputs :
           /\ metrics = input[1]
           /\ sites_data = input[2]
    /\ chart_data = EmptyChart
    /\ all_timestamps = {}
    /\ site_id_to_name = EmptyObj
    /\ name_counts = EmptyObj
    /\ idx = 1
    /\ pc = "pass1"
    /\ run = 1
    /\ first = <<>>
    /\ args = [cmd |-> "pivot"]
    /\ step = "idle"
    /\ all_sites = <<>>
    /\ next_token = Null
    /\ sites = <<>>
    /\ site_queries = <<>>
    /\ isp_metrics = Null
    /\ files = EmptyObj
    /\ log = <<>>

\* one iteration of the first loop over metrics
Pass1Step ==
    /\ pc = "pass1"
    /\ idx <= Len(metrics)
    /\ LET site_metric == metrics[idx]
           site_id     == SiteIdOf(site_metric)
           site_name   == BaseName(site_id, sites_data)
           unique_name == UniqueName(site_name, site_id, name_counts)
       IN  /\ name_counts' = CountName(site_name, name_counts)
           /\ site_id_to_name' = (site_id :> unique_name) @@ site_id_to_name
           /\ chart_data' = [chart_data EXCEPT !.sites = AppendSite(@, unique_name)]
           /\ all_timestamps' = all_timestamps \cup RecordTimestamps(PeriodsOf(site_metric))
    /\ idx' = idx + 1
    /\ UNCHANGED <<metrics, sites_data, pc, run, first>>
    /\ UNCHANGED appvars

\* chart_data['timestamps'] = sorted(list(all_timestamps))
SortStep ==
    /\ pc = "pass1"
    /\ idx > Len(metrics)
    /\ \E listing \in Listings(all_timestamps) :
           chart_data' = [chart_data EXCEPT !.timestamps = SortedTimestamps(listing)]
    /\ idx' = 1
    /\ pc' = "pass2"
    /\ UNCHANGED <<metrics, sites_data, all_timestamps, site_id_to_name, name_counts, run, first>>
    /\ UNCHANGED appvars

\* one iteration of the second loop over metrics, its fill loop included
Pass2Step ==
    /\ pc = "pass2"
    /\ idx <= Len(metrics)
    /\ ~FillRaises(TimestampData(PeriodsOf(metrics[idx])), chart_data.timestamps)
    /\ LET site_metric == metrics[idx]
           site_name   == Pass2Name(SiteIdOf(site_metric), site_id_to_name)
           td          == TimestampData(PeriodsOf(site_metric))
           axis        == chart_data.timestamps
       IN  chart_data' =
               [chart_data EXCEPT
                   !.latency     = DictSet(@, site_name, FillLatency(td, axis)),
                   !.download    = DictSet(@, site_name, FillDownload(td, axis)),
                   !.upload      = DictSet(@, site_name, FillUpload(td, axis)),
                   !.packet_loss = DictSet(@, site_name, FillPacketLoss(td, axis)),
                   !.uptime      = DictSet(@, site_name, FillUptime(td, axis))]
    /\ idx' = idx + 1
    /\ UNCHANGED <<metrics, sites_data, all_timestamps, site_id_to_name, name_counts, pc, run, first>>
    /\ UNCHANGED appvars

\* the iteration of the second loop that raises; the exception leaves the function
Pass2Raise ==
    /\ pc = "pass2"
    /\ idx <= Len(metrics)
    /\ FillRaises(TimestampData(PeriodsOf(metrics[idx])), chart_data.timestamps)
    /\ pc' = "raised"
    /\ UNCHANGED <<metrics, sites_data, chart_data, all_timestamps, site_id_to_name,
                   name_counts, idx, run, first>>
    /\ UNCHANGED appvars

\* return chart_data
Return ==
    /\ pc = "pass2"
    /\ idx > Len(metrics)
    /\ pc' = "done"
    /\ UNCHANGED <<metrics, sites_data, chart_data, all_timestamps, site_id_to_name,
                   name_counts, idx, run, first>>
    /\ UNCHANGED appvars

\* a second call on the same metrics and lookup; the first result is kept aside
CallAgain ==
    /\ pc = "done"
    /\ run = 1
    /\ first' = chart_data
    /\ run' = 2
    /\ Enter
    /\ UNCHANGED <<metrics, sites_data>>
    /\ UNCHANGED appvars

Next == Pass1Step \/ SortStep \/ Pass2Step \/ Return \/ CallAgain

Spec == Init /\ [][Next]_vars

-----------------------------------------------------------------------------
(* The two response shapes: a call on the metrics, then a call on the same *)
(* metrics with every period sent in the other shape                       *)

\* the period in the other shape: {wan: b} for a data object b, b for {wan: b}
OtherShape(period) ==
    IF "data" \notin DOMAIN period THEN period
    ELSE IF "wan" \in DOMAIN period["data"]
         THEN [period EXCEPT !["data"] = period["data"]["wan"]]
         ELSE [period EXCEPT !["data"] = "wan" :> period["data"]]

\* the record with every period in the other shape
Reshaped(site_metric) ==
    IF "periods" \notin DOMAIN site_metric THEN site_metric
    ELSE [site_metric EXCEPT
             !["periods"] = [i \in 1..Len(site_metric["periods"]) |->
                                OtherShape(site_metric["periods"][i])]]

\* one site with any periods, alone or before a second site
ShapeInputs ==
    LET rich  == {Record(IdA, ps) : ps \in SeqsUpTo(PeriodSet, MaxPeriods)}
        other == {Record(IdB, <<>>), Record(IdB, <<Period(T10, B3)>>),
                  Record(IdB, <<Period(T2, "wan" :> B2)>>)}
    IN  {<<r>> : r \in rich} \cup {<<r, o>> : r \in rich, o \in other}

InitShapes ==
    /\ metrics \in ShapeInputs
    /\ sites_data = EmptyObj
    /\ chart_data = EmptyChart
    /\ all_timestamps = {}
    /\ site_id_to_name = EmptyObj
    /\ name_counts = EmptyObj
    /\ idx = 1
    /\ pc = "pass1"
    /\ run = 1
    /\ first = <<>>
    /\ args = [cmd |-> "pivot"]
    /\ step = "idle"
    /\ all_sites = <<>>
    /\ next_token = Null
    /\ sites = <<>>
    /\ site_queries = <<>>
    /\ isp_metrics = Null
    /\ files = EmptyObj
    /\ log = <<>>

\* a second call, on the metrics in the other shape; the first result is kept aside
CallReshaped ==
    /\ pc = "done"
    /\ run = 1
    /\ first' = chart_data
    /\ run' = 2
    /\ metrics' = [k \in 1..Len(metrics) |-> Reshaped(metrics[k])]
    /\ Enter
    /\ UNCHANGED sites_data
    /\ UNCHANGED appvars

NextShapes == Pass1Step \/ SortStep \/ Pass2Step \/ Return \/ CallReshaped

SpecShapes == InitShapes /\ [][NextShapes]_vars

-----------------------------------------------------------------------------
(* The collector (unifi_isp_metrics.py) and generate_html_dashboard:       *)
(* files, requests and the explored server answers                         *)

\* pages after which the server's chain of continuation tokens has ended
MaxPages == 2

\* the defaults of --sites-output, --metrics-output and --html-output
SitesFile == "sites.json"

MetricsFile == "isp_metrics.json"

HtmlFile == "isp_metrics_dashboard.html"

\* the module that main imports for the HTML step
ModuleFile == "generate_charts.py"

\* the default of --metric-type
MetricType == "5m"

\* datetime.utcnow().isoformat() + "Z", and that instant less --hours-back
Now == "now"

HoursBack == "now - hours_back"

\* a file left by an earlier run, and the module's source
Stale == [stale |-> TRUE]

Module == [module |-> TRUE]

\* open(name, 'w') followed by the dump of content
Write(fs, name, content) ==
    [f \in (DOMAIN fs) \cup {name} |-> IF f = name THEN content ELSE fs[f]]

\* a continuation token; the empty string is a token that reads as none
Token(s) == [token |-> s]

TokA == Token("page-a")

TokB == Token("page-b")

EmptyTok == Token("")

\* Python truthiness of a string or null
TokenTruthy(v) == v # Null /\ v.token # ""

HostA == <<"h", "o", "s", "t", "-", "a">>

HostB == <<"h", "o", "s", "t", "-", "b">>

SiteA == ("siteId" :> IdA) @@ ("hostId" :> HostA) @@ ("meta" :> ("name" :> Office))

\* a site without a name
SiteB == ("siteId" :> IdB) @@ ("hostId" :> HostB)

\* a site the listing returns without its host identifier
SiteNoHost == ("siteId" :> IdA3) @@ ("meta" :> ("name" :> Lab))

\* a site entry without an identifier
SiteNoId == ("hostId" :> HostB) @@ ("meta" :> ("name" :> Lab))

\* the part every JSON body of the service carries
Ok200 == "httpStatusCode" :> Num(200, 1)

Page(data, token) == Ok200 @@ ("data" :> data) @@ ("nextToken" :> token)

\* pages that name a next page
TokenedPages ==
    { Page(<<SiteB, SiteA>>, TokA),
      Page(<<SiteA>>, TokB),
      Ok200 @@ ("nextToken" :> TokA) }

\* pages that end the listing: no token, a null token, an empty token
FinalPages ==
    { Ok200 @@ ("data" :> <<SiteA>>),
      Page(<<SiteNoHost>>, Null),
      Page(<<SiteB>>, EmptyTok),
      Ok200 @@ ("data" :> <<>>),
      Ok200 }

\* what the server may answer to request number n + 1 of a listing
PagesAfter(n) == IF n + 1 < MaxPages THEN TokenedPages \cup FinalPages ELSE FinalPages

Body(data) == Ok200 @@ ("data" :> data)

\* well-formed bodies of the metrics endpoint: both sites, one site as a
\* partial success, no site, no data object
SoundBodies ==
    { Body(("metrics" :> <<Record(IdA, <<Period(T10, "wan" :> B1), Period(T2, "wan" :> B2)>>),
                           Record(IdB, <<Period(T2, B1)>>)>>)
           @@ ("status" :> "success")),
      Body(("metrics" :> <<Record(IdB, <<Period(T10, B3)>>)>>)
           @@ ("status" :> "partialSuccess") @@ ("message" :> "1 of 2")),
      Body(("metrics" :> <<>>) @@ ("status" :> "partialSuccess")),
      Ok200 }

\* a body whose only period carries a null wan bundle
NullWanBody == Body("metrics" :> <<Record(IdA, <<Period(T10, "wan" :> Null)>>)>>)

\* the bodies the metrics endpoint may answer with
BodySet == SoundBodies \cup {NullWanBody}

-----------------------------------------------------------------------------
(* The collector: get_all_sites, build_site_queries, query_isp_metrics,    *)
(* main                                                                    *)

\* the requests of the listing made so far
Gets == SelectSeq(log, LAMBDA e : e.op = "GET")

\* the nextToken parameter of the URL: appended only if next_token is truthy
RequestToken(tok) == IF TokenTruthy(tok) THEN tok ELSE Null

\* Extend with the page put in front
ExtendFront(all, data) == IF "data" \in DOMAIN data THEN data["data"] \o all ELSE all

\* if "data" in data: all_sites.extend(data["data"])
Extend(all, data) == IF "data" \in DOMAIN data THEN all \o data["data"] ELSE all

\* HasNextPage that looks for the key only
HasTokenKey(data) == "nextToken" \in DOMAIN data

\* "nextToken" in data and data["nextToken"]
HasNextPage(data) == "nextToken" \in DOMAIN data /\ TokenTruthy(data["nextToken"])

\* Uncaught as a new attempt of the listing
Retried == "listing"

\* raise: no caller catches the exception and the process ends
Uncaught == "aborted"

\* MainOrder with the sites file written after the query
MainOrderQueryFirst(s) ==
    CASE s = "listing"      -> "build"
      [] s = "build"        -> "query"
      [] s = "query"        -> "save_sites"
      [] s = "save_sites"   -> "save_metrics"
      [] s = "save_metrics" -> "html"

\* the statement of main that follows the one that returned
MainOrder(s) ==
    CASE s = "listing"      -> "save_sites"
      [] s = "save_sites"   -> "build"
      [] s = "build"        -> "query"
      [] s = "query"        -> "save_metrics"
      [] s = "save_metrics" -> "html"

\* site["siteId"] or site["hostId"] raises KeyError
RaisesKeyError(site_list) ==
    \E i \in 1..Len(site_list) : ~({"siteId", "hostId"} \subseteq DOMAIN site_list[i])

\* build_site_queries without the query of the last site
build_all_but_last(site_list, begin_timestamp, end_timestamp) ==
    [i \in 1..(Len(site_list) - 1) |->
        [siteId |-> site_list[i]["siteId"], hostId |-> site_list[i]["hostId"],
         beginTimestamp |-> begin_timestamp, endTimestamp |-> end_timestamp]]

build_site_queries(site_list, begin_timestamp, end_timestamp) ==
    [i \in 1..Len(site_list) |->
        [siteId |-> site_list[i]["siteId"], hostId |-> site_list[i]["hostId"],
         beginTimestamp |-> begin_timestamp, endTimestamp |-> end_timestamp]]

\* the sites_data dict main writes to the sites file
sites_json(site_list) == [timestamp |-> Now, total_sites |-> Len(site_list), sites |-> site_list]

\* metrics_data with the data object in place of the response body
metrics_data_inner(response, queries) ==
    [query_timestamp |-> Now, metric_type |-> MetricType, begin_timestamp |-> HoursBack,
     end_timestamp |-> Now, total_sites_queried |-> Len(queries),
     response |-> Get(response, "data", EmptyObj)]

\* the metrics_data dict main writes to the metrics file
metrics_data(response, queries) ==
    [query_timestamp |-> Now, metric_type |-> MetricType, begin_timestamp |-> HoursBack,
     end_timestamp |-> Now, total_sites_queried |-> Len(queries), response |-> response]

\* one iteration of the while loop of get_all_sites: the request, its answer,
\* and on break the return and the assignment to sites in main
GetSitesPage ==
    /\ step = "listing"
    /\ Len(Gets) < MaxPages
    /\ \/ /\ log' = Append(log, [op |-> "GET", token |-> RequestToken(next_token),
                                 ok |-> FALSE, body |-> Null])
          /\ step' = Uncaught
          /\ UNCHANGED <<all_sites, next_token, sites>>
       \/ \E data \in PagesAfter(Len(Gets)) :
              /\ log' = Append(log, [op |-> "GET", token |-> RequestToken(next_token),
                                     ok |-> TRUE, body |-> data])
              /\ all_sites' = Extend(all_sites, data)
              /\ IF HasNextPage(data)
                 THEN /\ next_token' = data["nextToken"]
                      /\ step' = "listing"
                      /\ sites' = sites
                 ELSE /\ next_token' = next_token
                      /\ step' = MainOrder("listing")
                      /\ sites' = all_sites'
    /\ UNCHANGED <<args, site_queries, isp_metrics, files>>
    /\ UNCHANGED pivotvars

\* save_to_file(sites_data, args.sites_output)
SaveSites ==
    /\ step = "save_sites"
    /\ files' = Write(files, SitesFile, sites_json(sites))
    /\ log' = Append(log, [op |-> "WRITE", file |-> SitesFile])
    /\ step' = MainOrder("save_sites")
    /\ UNCHANGED <<args, all_sites, next_token, sites, site_queries, isp_metrics>>
    /\ UNCHANGED pivotvars

\* site_queries = client.build_site_queries(sites, begin_timestamp, end_timestamp)
BuildSiteQueries ==
    /\ step = "build"
    /\ IF RaisesKeyError(sites)
       THEN /\ step' = Uncaught
            /\ site_queries' = site_queries
       ELSE /\ step' = MainOrder("build")
            /\ site_queries' = build_site_queries(sites, HoursBack, Now)
    /\ UNCHANGED <<args, all_sites, next_token, sites, isp_metrics, files, log>>
    /\ UNCHANGED pivotvars

\* isp_metrics = client.query_isp_metrics(metric_type, sites=site_queries)
QueryIspMetrics ==
    /\ step = "query"
    /\ \/ /\ log' = Append(log, [op |-> "POST", payload |-> [sites |-> site_queries],
                                 ok |-> FALSE, body |-> Null])
          /\ step' = Uncaught
          /\ isp_metrics' = isp_metrics
       \/ \E data \in BodySet :
              /\ log' = Append(log, [op |-> "POST", payload |-> [sites |-> site_queries],
                                     ok |-> TRUE, body |-> data])
              /\ step' = MainOrder("query")
              /\ isp_metrics' = data
    /\ UNCHANGED <<args, all_sites, next_token, sites, site_queries, files>>
    /\ UNCHANGED pivotvars

\* save_to_file(metrics_data, args.metrics_output)
SaveMetrics ==
    /\ step = "save_metrics"
    /\ files' = Write(files, MetricsFile, metrics_data(isp_metrics, site_queries))
    /\ log' = Append(log, [op |-> "WRITE", file |-> MetricsFile])
    /\ step' = MainOrder("save_metrics")
    /\ UNCHANGED <<args, all_sites, next_token, sites, site_queries, isp_metrics>>
    /\ UNCHANGED pivotvars

\* if args.generate_html: the import, with ImportError caught, and the call
GenerateHtml ==
    /\ step = "html"
    /\ IF ~args.generate_html
       THEN step' = "finished" /\ log' = log
       ELSE IF ModuleFile \notin DOMAIN files
            THEN step' = "finished" /\ log' = Append(log, [op |-> "CAUGHT", exc |-> "ImportError"])
            ELSE step' = "dash_load" /\ log' = log
    /\ UNCHANGED <<args, all_sites, next_token, sites, site_queries, isp_metrics, files>>
    /\ UNCHANGED pivotvars

-----------------------------------------------------------------------------
(* generate_html_dashboard *)

\* site.get('meta', {}).get('name', 'Unknown')
SiteName(site) == Get(Get(site, "meta", EmptyObj), "name", Unknown)

\* the lookup after the loop over the entries of the sites file
RECURSIVE LookupOf(_)
LookupOf(site_list) ==
    IF site_list = <<>> THEN EmptyObj
    ELSE LET n      == Len(site_list)
             before == LookupOf(SubSeq(site_list, 1, n - 1))
             site   == site_list[n]
         IN  IF "siteId" \in DOMAIN site /\ site["siteId"] # <<>>
             THEN (site["siteId"] :> SiteName(site)) @@ before
             ELSE before

\* sites_data: empty unless the sites file exists
LoadLookup(fs) ==
    IF SitesFile \in DOMAIN fs THEN LookupOf(Get(fs[SitesFile], "sites", <<>>)) ELSE EmptyObj

\* MissingInput that asks for the sites file as well
MissingAnyInput(fs) == MetricsFile \notin DOMAIN fs \/ SitesFile \notin DOMAIN fs

\* open(metrics_file, 'r') raises FileNotFoundError
MissingInput(fs) == MetricsFile \notin DOMAIN fs

\* metrics_data.get('response', {}).get('data', {}).get('metrics', [])
MetricsArray(md) == Get(Get(Get(md, "response", EmptyObj), "data", EmptyObj), "metrics", <<>>)

\* NoMetrics that lets an empty array through
NeverNoMetrics(ms) == FALSE

\* not metrics
NoMetrics(ms) == ms = <<>>

\* the exception leaves generate_html_dashboard: main of the collector
\* catches it, main of generate_charts does not
AfterException(cmd) == IF cmd = "collect" THEN "finished" ELSE Uncaught

\* the page: the embedded chart data and the query metadata
generate_html_template(cd, md) ==
    [chartData |-> cd,
     query_time |-> Get(md, "query_timestamp", "Unknown"),
     metric_type |-> Get(md, "metric_type", "5m"),
     begin_time |-> Get(md, "begin_timestamp", "Unknown"),
     end_time |-> Get(md, "end_timestamp", "Unknown")]

\* the loading of both files, the extraction of the metrics array, and either
\* the early return or the call of prepare_chart_data
DashboardLoad ==
    /\ step = "dash_load"
    /\ IF MissingInput(files)
       THEN /\ step' = AfterException(args.cmd)
            /\ log' = Append(log, [op |-> "RAISED", exc |-> "FileNotFoundError"])
            /\ UNCHANGED pivotvars
       ELSE IF NoMetrics(MetricsArray(files[MetricsFile]))
            THEN /\ step' = "finished"
                 /\ log' = Append(log, [op |-> "ERROR", msg |-> "No metrics found"])
                 /\ UNCHANGED pivotvars
            ELSE /\ step' = "pivot"
                 /\ log' = Append(log, [op |-> "PIVOT"])
                 /\ metrics' = MetricsArray(files[MetricsFile])
                 /\ sites_data' = LoadLookup(files)
                 /\ Enter
                 /\ UNCHANGED <<run, first>>
    /\ UNCHANGED <<args, all_sites, next_token, sites, site_queries, isp_metrics, files>>

\* prepare_chart_data returned: the template is filled and written
DashboardWrite ==
    /\ step = "pivot"
    /\ pc = "done"
    /\ files' = Write(files, HtmlFile, generate_html_template(chart_data, files[MetricsFile]))
    /\ log' = Append(log, [op |-> "WRITE", file |-> HtmlFile])
    /\ step' = "finished"
    /\ UNCHANGED <<args, all_sites, next_token, sites, site_queries, isp_metrics>>
    /\ UNCHANGED pivotvars

\* prepare_chart_data raised
DashboardRaised ==
    /\ step = "pivot"
    /\ pc = "raised"
    /\ step' = AfterException(args.cmd)
    /\ log' = Append(log, [op |-> "RAISED", exc |-> "AttributeError"])
    /\ pc' = "idle"
    /\ UNCHANGED <<args, all_sites, next_token, sites, site_queries, isp_metrics, files>>
    /\ UNCHANGED <<metrics, sites_data, chart_data, all_timestamps, site_id_to_name,
                   name_counts, idx, run, first>>

-----------------------------------------------------------------------------
(* The two programs as one state machine: a run of the collector, or a run *)
(* of generate_charts on files found in the directory                      *)

\* prepare_chart_data has not been called
PivotIdle ==
    /\ metrics = <<>>
    /\ sites_data = EmptyObj
    /\ chart_data = EmptyChart
    /\ all_timestamps = {}
    /\ site_id_to_name = EmptyObj
    /\ name_counts = EmptyObj
    /\ idx = 1
    /\ pc = "idle"
    /\ run = 1
    /\ first = <<>>

\* the directory of a collector run: with or without the module, with or
\* without the files of an earlier run
CollectFiles ==
    { [f \in D |-> IF f = ModuleFile THEN Module ELSE Stale] :
          D \in { {}, {ModuleFile}, {SitesFile, MetricsFile, HtmlFile},
                  {ModuleFile, SitesFile, MetricsFile, HtmlFile} } }

Absent == [absent |-> TRUE]

\* the directory with the three files, each possibly absent
FilesOf(s, m, h) ==
    LET full == (SitesFile :> s) @@ (MetricsFile :> m) @@ (HtmlFile :> h)
    IN  [f \in {g \in DOMAIN full : full[g] # Absent} |-> full[f]]

\* the directory of a generate_charts run: files a collector wrote from
\* well-formed answers, a sites or metrics file without its list, absent files
RenderFiles ==
    { FilesOf(s, m, h) :
          s \in { Absent, sites_json(<<SiteA, SiteB>>), sites_json(<<SiteNoId, SiteA>>),
                  [timestamp |-> Now] },
          m \in { Absent, [query_timestamp |-> Now] }
                \cup { metrics_data(b, <<>>) : b \in SoundBodies },
          h \in { Absent, Stale } }

InitCollect ==
    /\ args \in {[cmd |-> "collect", generate_html |-> g] : g \in BOOLEAN}
    /\ step = "listing"
    /\ files \in CollectFiles

InitRender ==
    /\ args = [cmd |-> "render", generate_html |-> FALSE]
    /\ step = "dash_load"
    /\ files \in RenderFiles

InitApp ==
    /\ InitCollect \/ InitRender
    /\ all_sites = <<>>
    /\ next_token = Null
    /\ sites = <<>>
    /\ site_queries = <<>>
    /\ isp_metrics = Null
    /\ log = <<>>
    /\ PivotIdle

NextApp ==
    \/ GetSitesPage
    \/ SaveSites
    \/ BuildSiteQueries
    \/ QueryIspMetrics
    \/ SaveMetrics
    \/ GenerateHtml
    \/ DashboardLoad
    \/ Pass1Step
    \/ SortStep
    \/ Pass2Step
    \/ Pass2Raise
    \/ Return
    \/ DashboardWrite
    \/ DashboardRaised

\* every statement of a run is blocking and is followed by the next one
SpecApp == InitApp /\ [][NextApp]_vars /\ WF_vars(NextApp)

-----------------------------------------------------------------------------
(* Vocabulary of the properties *)

Sites == chart_data.sites

Axis == chart_data.timestamps

MetricNames == {"latency", "download", "upload", "packet_loss", "uptime"}

\* the bundle field each mapping is fed from
FieldOf(m) ==
    CASE m = "latency"     -> "avgLatency"
      [] m = "download"    -> "download_kbps"
      [] m = "upload"      -> "upload_kbps"
      [] m = "packet_loss" -> "packetLoss"
      [] m = "uptime"      -> "uptime"

Throughput == {"download", "upload"}

RecId(k) == SiteIdOf(metrics[k])

\* the first eight characters of an identifier
First8(id) == [i \in 1..(IF Len(id) < 8 THEN Len(id) ELSE 8) |-> id[i]]

\* the base name the documentation gives record k
ExpectedBase(k) ==
    IF RecId(k) \in DOMAIN sites_data
    THEN sites_data[RecId(k)]
    ELSE <<"S", "i", "t", "e", "-">> \o First8(RecId(k))

\* "<base name> (<first 8 characters of the identifier>)"
Disambiguated(k) == ExpectedBase(k) \o <<" ", "(">> \o First8(RecId(k)) \o <<")">>

IsPrefix(a, b) == Len(a) <= Len(b) /\ SubSeq(b, 1, Len(a)) = a

\* the metricTime strings present in the periods of record k
TimesOf(k) ==
    LET ps == PeriodsOf(metrics[k])
    IN  {ps[i]["metricTime"] : i \in {j \in 1..Len(ps) : "metricTime" \in DOMAIN ps[j]}}

AllTimes == UNION {TimesOf(k) : k \in 1..Len(metrics)}

StrictlyAscending(l) == \A i \in 1..(Len(l) - 1) : LexLess(l[i], l[i + 1])

AxisIs(S) ==
    /\ {Axis[i] : i \in 1..Len(Axis)} = S
    /\ StrictlyAscending(Axis)
    /\ Len(Axis) = Cardinality(S)

\* the periods of record k whose metricTime is ts
PeriodsAt(k, ts) ==
    LET ps == PeriodsOf(metrics[k])
    IN  {i \in 1..Len(ps) : "metricTime" \in DOMAIN ps[i] /\ ps[i]["metricTime"] = ts}

\* the measurement bundle of a period, in either response shape
Bundle(p) ==
    IF "data" \notin DOMAIN p THEN <<>>
    ELSE IF "wan" \in DOMAIN p["data"] THEN p["data"]["wan"] ELSE p["data"]

\* the period's bundle lacks the field or holds null for it
Missing(p, field) == field \notin DOMAIN Bundle(p) \/ Bundle(p)[field] = Null

\* r = v / 1000, as an equation between fractions
IsThousandth(r, v) == r.d > 0 /\ r.n * v.d * 1000 = v.n * r.d

\* the second loop has just finished record idx - 1
Filled == pc \in {"pass2", "done"} /\ idx > 1

\* the list stored for the record just filled, in mapping m
JustFilled(m) == DictGet(chart_data[m], site_id_to_name[RecId(idx - 1)])

-----------------------------------------------------------------------------
(* C1: every display name in sites is a key of each of the five mappings,  *)
(* and its value sequence has exactly len(timestamps) entries.             *)
ClaimC1 ==
    pc = "done" =>
        \A k \in 1..Len(Sites) : \A m \in MetricNames :
            /\ DictHas(chart_data[m], Sites[k])
            /\ Len(DictGet(chart_data[m], Sites[k])) = Len(Axis)

(* C2: records with distinct site identifiers get distinct display names.  *)
ClaimC2 ==
    \A j, k \in 1..Len(Sites) :
        RecId(j) # RecId(k) => Sites[j] # Sites[k]

(* C3 as stated: the axis is exactly the set of timestamp strings that     *)
(* appear in any period, strictly ascending, without duplicates.           *)
ClaimC3_Original == pc \in {"pass2", "done"} => AxisIs(AllTimes)

(* C3: the axis is exactly the set of non-empty timestamp strings that     *)
(* appear in any period of any record, in strictly ascending               *)
(* lexicographic order, and its length is the size of that set.            *)
ClaimC3 == pc \in {"pass2", "done"} => AxisIs(AllTimes \ {<<>>})

WitnessC3 ==
    /\ pc = "done"
    /\ <<>> \in AllTimes
    /\ Axis = <<T1, T10, T2>>
    /\ Len(metrics) = 2

(* C4: a running count per base name in input order: the first record of   *)
(* a base name keeps the bare name, every later one gets                   *)
(* "<base name> (<first 8 characters of its identifier>)"; two sites named *)
(* Office, aaaaaaaa-1111 and bbbbbbbb-2222, become "Office" and            *)
(* "Office (bbbbbbbb)".                                                    *)
ClaimC4 ==
    /\ \A k \in 1..Len(Sites) :
           Sites[k] = IF \E j \in 1..(k - 1) : ExpectedBase(j) = ExpectedBase(k)
                      THEN Disambiguated(k)
                      ELSE ExpectedBase(k)
    /\ \A b \in DOMAIN name_counts :
           name_counts[b] = Cardinality({k \in 1..Len(Sites) : ExpectedBase(k) = b})
    /\ ( /\ pc = "done"
         /\ Len(metrics) = 2
         /\ RecId(1) = IdA
         /\ RecId(2) = IdB
         /\ {IdA, IdB} \subseteq DOMAIN sites_data
         /\ sites_data[IdA] = Office
         /\ sites_data[IdB] = Office )
       => Sites = << <<"O", "f", "f", "i", "c", "e">>,
                     <<"O", "f", "f", "i", "c", "e", " ", "(",
                       "b", "b", "b", "b", "b", "b", "b", "b", ")">> >>

WitnessC4 ==
    /\ pc = "done"
    /\ Len(metrics) = 3
    /\ RecId(1) = IdA
    /\ RecId(2) = IdB
    /\ RecId(3) = IdShort
    /\ ExpectedBase(1) = Office
    /\ ExpectedBase(2) = Office
    /\ Sites[2] = Disambiguated(2)
    /\ Sites[3] = ExpectedBase(3)

ClaimC6 ==
    Filled =>
        \A i \in 1..Len(Axis) : \A m \in MetricNames :
            LET ps   == PeriodsOf(metrics[idx - 1])
                at   == PeriodsAt(idx - 1, Axis[i])
                val  == JustFilled(m)[i]
            IN  /\ Len(JustFilled(m)) = Len(Axis)
                /\ (\A n \in at : Missing(ps[n], FieldOf(m))) => val = Zero
                /\ ( /\ m \in Throughput
                     /\ \A n \in at : Missing(ps[n], FieldOf(m)) \/ Bundle(ps[n])[FieldOf(m)].n = 0 )
                   => val = Zero
                /\ val # Zero => \E n \in at : ~Missing(ps[n], FieldOf(m))

WitnessC6 ==
    /\ Filled
    /\ PeriodsOf(metrics[idx - 1]) = <<"metricTime" :> T1, Period(T2, "wan" :> B2)>>
    /\ Axis = <<T1, T10, T2>>
    /\ JustFilled("latency") = <<Zero, Zero, Zero>>
    /\ JustFilled("download") = <<Zero, Zero, Zero>>
    /\ JustFilled("upload") = <<Zero, Zero, Zero>>
    /\ JustFilled("packet_loss") = <<Zero, Zero, Zero>>
    /\ JustFilled("uptime") = <<Zero, Zero, Num(199, 2)>>

\* the value record k's own data gives mapping m at timestamp ts: taken from
\* the last of its periods at ts, 0 where there is none or the field is
\* missing, throughput divided by 1000
OwnValue(k, ts, m, val) ==
    LET ps == PeriodsOf(metrics[k])
        at == PeriodsAt(k, ts)
    IN  IF at = {} THEN val = Zero
        ELSE LET last == CHOOSE n \in at : \A o \in at : o <= n
                 b    == Bundle(ps[last])
             IN  IF Missing(ps[last], FieldOf(m)) THEN val = Zero
                 ELSE IF m \in Throughput
                      THEN IF b[FieldOf(m)].n = 0 THEN val = Zero
                           ELSE IsThousandth(val, b[FieldOf(m)])
                      ELSE val = b[FieldOf(m)]

(* C7: index alignment. In the result, for every record and every index i, *)
(* the value at position i of each of the five sequences stored under the  *)
(* record's display name is derived from that record's own bundle at       *)
(* timestamps[i], never from another site's or another timestamp's data.   *)
ClaimC7 ==
    pc = "done" =>
        \A k \in 1..Len(metrics) : \A m \in MetricNames :
            /\ DictHas(chart_data[m], Sites[k])
            /\ Len(DictGet(chart_data[m], Sites[k])) = Len(Axis)
            /\ \A i \in 1..Len(Axis) :
                   OwnValue(k, Axis[i], m, DictGet(chart_data[m], Sites[k])[i])

(* C8: throughput conversion. A non-zero download_kbps or upload_kbps v    *)
(* gives v/1000, a negative one included (no clamping); a zero, null or    *)
(* absent value gives exactly 0.                                           *)
ClaimC8 ==
    Filled =>
        \A i \in 1..Len(Axis) : \A m \in Throughput :
            LET ps == PeriodsOf(metrics[idx - 1])
                at == PeriodsAt(idx - 1, Axis[i])
            IN  \A n \in at :
                    Cardinality(at) = 1 =>
                        LET v == Get(Bundle(ps[n]), FieldOf(m), Null)
                            r == JustFilled(m)[i]
                        IN  IF v = Null \/ v.n = 0
                            THEN r = Zero
                            ELSE /\ IsThousandth(r, v)
                                 /\ (v.n < 0 <=> r.n < 0)

WitnessC8 ==
    /\ Filled
    /\ PeriodsOf(metrics[idx - 1]) = <<Period(T10, B3), Period(T2, B1), "metricTime" :> T1>>
    /\ Axis = <<T1, T10, T2>>
    /\ JustFilled("download") = <<Zero, Num(-2, 1), Num(50, 1)>>
    /\ JustFilled("upload") = <<Zero, Num(1, 2), Zero>>

(* C9: a second run on the same metrics and the same lookup returns the    *)
(* same PivotTable: same sites, same timestamps, same mappings with their  *)
(* keys in the same insertion order.                                       *)
ClaimC9 == (pc = "done" /\ run = 2) => chart_data = first

WitnessC9 ==
    /\ pc = "done"
    /\ run = 2
    /\ Len(Axis) = 3
    /\ Len(Sites) = 2
    /\ Len(chart_data.latency) = 2
    /\ chart_data = first

(* C10: sites holds exactly one display name per input record, in input    *)
(* order: its length is the number of records and its k-th entry is the    *)
(* name resolved for the k-th record.                                      *)
ClaimC10 ==
    /\ pc = "pass1" => Len(Sites) = idx - 1
    /\ pc # "pass1" => Len(Sites) = Len(metrics)
    /\ \A k \in 1..Len(Sites) :
           /\ IsPrefix(ExpectedBase(k), Sites[k])
           /\ Sites[k] \in {ExpectedBase(k), Disambiguated(k)}

WitnessC10 ==
    /\ pc = "done"
    /\ Len(metrics) = 3
    /\ Len(Sites) = 3
    /\ Sites[2] = Sites[3]
    /\ metrics[1] = metrics[2]

-----------------------------------------------------------------------------
(* Vocabulary of the properties of the collector and the dashboard *)

Collecting == args.cmd = "collect"

LastGet == Gets[Len(Gets)]

\* get_all_sites has returned its list to main
ListingReturned == Collecting /\ step # "listing" /\ Gets # <<>> /\ LastGet.ok

\* the continuation token a request's answer carries, if any
TokenOf(e) ==
    IF e.ok /\ "nextToken" \in DOMAIN e.body THEN e.body["nextToken"] ELSE Null

CarriesToken(e) == TokenOf(e) # Null /\ TokenOf(e) # Token("")

\* the data array of a page; a page without one contributes nothing
DataOf(page) == IF "data" \in DOMAIN page THEN page["data"] ELSE <<>>

RECURSIVE Concat(_)
Concat(lists) == IF lists = <<>> THEN <<>> ELSE Head(lists) \o Concat(Tail(lists))

\* the events of the log with operation op
Events(op) == SelectSeq(log, LAMBDA e : e.op = op)

\* the positions of the log where file name is written
WritesOf(name) == {i \in 1..Len(log) : log[i].op = "WRITE" /\ log[i].file = name}

Ended == step \in {"finished", "aborted"}

-----------------------------------------------------------------------------
(* C11: get_all_sites returns the concatenation of the data arrays of all  *)
(* pages it received, in request order and in the order inside each page;  *)
(* each request after the first carries the continuation token of the      *)
(* immediately preceding response, and the first carries none.             *)
ClaimC11 ==
    /\ \A k \in 1..Len(Gets) :
           IF k = 1 THEN Gets[k].token = Null
           ELSE CarriesToken(Gets[k - 1]) /\ Gets[k].token = TokenOf(Gets[k - 1])
    /\ ListingReturned =>
           sites = Concat([k \in 1..Len(Gets) |-> DataOf(Gets[k].body)])

WitnessC11 ==
    /\ ListingReturned
    /\ Len(Gets) = 2
    /\ Gets[1].body = Page(<<SiteB, SiteA>>, TokA)
    /\ Gets[2].token = TokA
    /\ Gets[2].body = Page(<<SiteB>>, EmptyTok)
    /\ sites = <<SiteB, SiteA, SiteB>>

\* the loop is running exactly while the last answer named a next page, and
\* no request follows a failure or an answer without a token
StopsAtFirstTokenless ==
    /\ \A k \in 1..(Len(Gets) - 1) : CarriesToken(Gets[k])
    /\ Collecting /\ Gets # <<>> /\ CarriesToken(LastGet) => step = "listing"
    /\ Collecting /\ Gets # <<>> /\ ~CarriesToken(LastGet) => step # "listing"
    /\ ListingReturned =>
           /\ \A k \in 1..Len(Gets) : Gets[k].ok
           /\ Len(sites) = Len(Concat([k \in 1..Len(Gets) |-> DataOf(Gets[k].body)]))

(* C12: the pagination loop stops exactly at the first successful response *)
(* that carries no continuation token, or a null or empty one: no request  *)
(* follows that response, and the loop never stops while the last response *)
(* carried a token; as the server's chain of tokens is finite the loop     *)
(* terminates, after exactly one request per page.                         *)
ClaimC12 == [](StopsAtFirstTokenless) /\ (Collecting => <>(step # "listing"))

WitnessC12 ==
    /\ ListingReturned
    /\ Len(Gets) = 2
    /\ Gets[1].body = Ok200 @@ ("nextToken" :> TokA)
    /\ TokenOf(LastGet) = EmptyTok
    /\ step = "save_sites"

\* event i of the log is a request that failed
FailedRequest(i) == log[i].op \in {"GET", "POST"} /\ ~log[i].ok

(* C13: a transport or HTTP error during the listing (on any page) or the  *)
(* metrics query propagates: the failed request is not retried, no partial *)
(* result is returned, and the collector run aborts; after a listing       *)
(* failure the run has written neither the sites nor the metrics file.     *)
ClaimC13 ==
    \A i \in 1..Len(log) :
        FailedRequest(i) =>
            /\ i = Len(log)
            /\ step = "aborted"
            /\ log[i].op = "GET" =>
                   /\ sites = <<>>
                   /\ WritesOf(SitesFile) = {} /\ WritesOf(MetricsFile) = {}
                   /\ \A f \in (DOMAIN files) \ {ModuleFile} : files[f] = Stale
            /\ log[i].op = "POST" =>
                   /\ isp_metrics = Null
                   /\ WritesOf(MetricsFile) = {}

WitnessC13 ==
    /\ step = "aborted"
    /\ Len(Gets) = 2
    /\ ~LastGet.ok
    /\ LastGet.token = TokA
    /\ all_sites = <<SiteB, SiteA>>
    /\ sites = <<>>
    /\ SitesFile \in DOMAIN files

Posts == Events("POST")

\* build_site_queries has returned its list to main
QueriesBuilt ==
    /\ Collecting
    /\ \/ step \in {"query", "save_metrics", "html", "dash_load", "pivot", "finished"}
       \/ Posts # <<>>

(* C14: build_site_queries returns exactly one query per listed site, in   *)
(* the same order, each with that site's siteId and hostId and the same    *)
(* begin/end timestamp pair; a collector run submits all of them in        *)
(* exactly one metrics-query request.                                      *)
ClaimC14 ==
    /\ QueriesBuilt =>
           /\ Len(site_queries) = Len(sites)
           /\ \A i \in 1..Len(sites) :
                  /\ DOMAIN site_queries[i] =
                         {"siteId", "hostId", "beginTimestamp", "endTimestamp"}
                  /\ site_queries[i].siteId = sites[i]["siteId"]
                  /\ site_queries[i].hostId = sites[i]["hostId"]
                  /\ site_queries[i].beginTimestamp = site_queries[1].beginTimestamp
                  /\ site_queries[i].endTimestamp = site_queries[1].endTimestamp
    /\ Len(Posts) <= 1
    /\ \A k \in 1..Len(Posts) : Posts[k].payload = [sites |-> site_queries]
    /\ Collecting /\ step \in {"save_metrics", "html", "dash_load", "pivot", "finished"} =>
           Len(Posts) = 1

WitnessC14 ==
    /\ Collecting
    /\ step = "finished"
    /\ sites = <<SiteB, SiteA, SiteA>>
    /\ Len(Posts) = 1
    /\ Len(Posts[1].payload.sites) = 3
    /\ site_queries[1].hostId = HostB
    /\ site_queries[3].siteId = IdA

\* the data object of a response body
DataObject(body) == Get(body, "data", EmptyObj)

\* the answer reports a partial success, or metrics for fewer sites than queried
Partial(e) ==
    \/ Get(DataObject(e.body), "status", "") = "partialSuccess"
    \/ Len(Get(DataObject(e.body), "metrics", <<>>)) < Len(e.payload.sites)

(* C15: a metrics-query response whose status is partialSuccess, or that   *)
(* returns metrics for fewer sites than were queried, is not an error:     *)
(* query_isp_metrics returns the unmodified body and the collector goes on *)
(* to persist it in the metrics file.                                      *)
ClaimC15 ==
    \A k \in 1..Len(Posts) :
        Posts[k].ok /\ Partial(Posts[k]) =>
            /\ isp_metrics = Posts[k].body
            /\ step # "aborted"
            /\ step # "save_metrics" =>
                   /\ WritesOf(MetricsFile) # {}
                   /\ files[MetricsFile].response = Posts[k].body

WitnessC15 ==
    /\ step = "finished"
    /\ Len(Posts) = 1
    /\ Len(site_queries) = 2
    /\ Get(DataObject(Posts[1].body), "status", "") = "partialSuccess"
    /\ Len(Get(DataObject(Posts[1].body), "metrics", <<>>)) = 1
    /\ files[MetricsFile].response = Posts[1].body
    /\ files[MetricsFile].total_sites_queried = 2

\* the step of the run an event belongs to: 1 list sites, 2 write the sites
\* file, 3 query metrics, 4 write the metrics file, 5 reshape and render,
\* 6 write the HTML file
StepOf(e) ==
    CASE e.op = "GET" -> 1
      [] e.op = "WRITE" /\ e.file = SitesFile -> 2
      [] e.op = "POST" -> 3
      [] e.op = "WRITE" /\ e.file = MetricsFile -> 4
      [] e.op \in {"PIVOT", "ERROR", "CAUGHT", "RAISED"} -> 5
      [] e.op = "WRITE" /\ e.file = HtmlFile -> 6

(* C16: in every collector run the steps happen strictly in the order list *)
(* sites, write sites file, query metrics, write metrics file, then, only  *)
(* with --generate-html, reshape, render and write the HTML file: a        *)
(* failing query leaves the sites file written and the metrics file not,   *)
(* and the render step never starts before the metrics file is written.    *)
ClaimC16 ==
    Collecting =>
        /\ \A i, j \in 1..Len(log) :
               i < j =>
                   /\ StepOf(log[i]) <= StepOf(log[j])
                   /\ StepOf(log[i]) = StepOf(log[j]) => StepOf(log[i]) \in {1, 5}
        /\ \A j \in 1..Len(log) :
               /\ StepOf(log[j]) > 1 => \E i \in 1..(j - 1) : StepOf(log[i]) = StepOf(log[j]) - 1
               /\ StepOf(log[j]) >= 5 => args.generate_html
        /\ Posts # <<>> /\ ~Posts[1].ok =>
               /\ files[SitesFile] = sites_json(sites)
               /\ WritesOf(MetricsFile) = {}
        /\ step \in {"dash_load", "pivot"} =>
               /\ WritesOf(MetricsFile) # {}
               /\ files[MetricsFile].response = isp_metrics
        /\ step = "finished" => WritesOf(SitesFile) # {} /\ WritesOf(MetricsFile) # {}

WitnessC16 ==
    /\ Collecting
    /\ step = "finished"
    /\ [i \in 1..Len(log) |-> log[i].op] =
           <<"GET", "GET", "WRITE", "POST", "WRITE", "PIVOT", "WRITE">>
    /\ log[3].file = SitesFile
    /\ log[5].file = MetricsFile
    /\ log[7].file = HtmlFile

\* the run calls generate_html_dashboard
DashboardCalled == ~Collecting \/ (args.generate_html /\ ModuleFile \in DOMAIN files)

\* the metrics file exists and response.data.metrics is missing or empty
EmptyMetricsFile ==
    MetricsFile \in DOMAIN files /\ MetricsArray(files[MetricsFile]) = <<>>

(* C17: when the metrics array reached through response.data.metrics of   *)
(* the metrics file is missing or empty, generate_html_dashboard reports   *)
(* an error and returns without calling the pivot and without creating or  *)
(* overwriting the output file.                                            *)
ClaimC17 ==
    EmptyMetricsFile =>
        /\ Events("PIVOT") = <<>>
        /\ pc = "idle"
        /\ WritesOf(HtmlFile) = {}
        /\ HtmlFile \in DOMAIN files => files[HtmlFile] = Stale
        /\ step # "aborted" \/ Collecting
        /\ step = "finished" /\ DashboardCalled =>
               /\ Len(Events("ERROR")) = 1
               /\ log[Len(log)].op = "ERROR"

WitnessC17 ==
    /\ ~Collecting
    /\ step = "finished"
    /\ DOMAIN files = {MetricsFile, HtmlFile}
    /\ files[MetricsFile] = metrics_data(Ok200, <<>>)
    /\ files[HtmlFile] = Stale
    /\ log = <<[op |-> "ERROR", msg |-> "No metrics found"]>>

\* generate_html_dashboard runs on a directory without the sites file
NoSitesFile == ~Collecting /\ SitesFile \notin DOMAIN files /\ MetricsFile \in DOMAIN files

\* the display name of record k is its truncated-identifier fallback, bare
\* or with the disambiguating suffix
FallbackNamed(k) ==
    /\ ExpectedBase(k) = <<"S", "i", "t", "e", "-">> \o First8(RecId(k))
    /\ Sites[k] \in {ExpectedBase(k), Disambiguated(k)}

(* C18: when the sites file does not exist, generate_html_dashboard does   *)
(* not fail: it uses an empty name lookup, so every site's base display    *)
(* name is the truncated-identifier fallback, and, given a non-empty       *)
(* metrics array, the output file is still written.                        *)
ClaimC18 ==
    NoSitesFile =>
        /\ step # "aborted"
        /\ Events("PIVOT") # <<>> =>
               /\ sites_data = EmptyObj
               /\ \A k \in 1..Len(Sites) : FallbackNamed(k)
        /\ ~EmptyMetricsFile =>
               /\ step \in {"dash_load", "pivot", "finished"}
               /\ step # "dash_load" => Events("PIVOT") # <<>>
               /\ step = "finished" =>
                      /\ WritesOf(HtmlFile) # {}
                      /\ files[HtmlFile] = generate_html_template(chart_data, files[MetricsFile])
                      /\ Len(Sites) = Len(metrics)

WitnessC18 ==
    /\ NoSitesFile
    /\ step = "finished"
    /\ WritesOf(HtmlFile) # {}
    /\ files[HtmlFile].chartData.sites = <<FallbackName(IdA), FallbackName(IdB)>>
    /\ sites_data = EmptyObj

\* the HTML step failed: the import, or an exception of the dashboard
HtmlStepFailed == Events("CAUGHT") # <<>> \/ Events("RAISED") # <<>>

(* C19: the collector aborts only on a failure of the site listing or of   *)
(* the metrics query; in every other case it finishes normally, and a      *)
(* failure of the optional HTML step (missing module, or an exception      *)
(* raised while reshaping or rendering) is caught, does not abort the run  *)
(* and leaves the written sites and metrics files in place.                *)
ClaimC19 ==
    Collecting =>
        /\ step = "aborted" => log # <<>> /\ FailedRequest(Len(log))
        /\ HtmlStepFailed =>
               /\ step = "finished"
               /\ files[SitesFile] = sites_json(sites)
               /\ files[MetricsFile] = metrics_data(isp_metrics, site_queries)

(* C20: when a timestamp occurs more than once in one record's periods,    *)
(* the bundle of the later period replaces the earlier one entirely: every *)
(* value appended at that timestamp comes from the last such period, and a *)
(* field only an earlier period holds gives 0.                             *)
ClaimC20 ==
    Filled =>
        \A i \in 1..Len(Axis) :
            Cardinality(PeriodsAt(idx - 1, Axis[i])) > 1 =>
                \A m \in MetricNames : OwnValue(idx - 1, Axis[i], m, JustFilled(m)[i])

WitnessC20 ==
    /\ Filled
    /\ PeriodsOf(metrics[idx - 1]) = <<Period(T10, B3), Period(T10, "wan" :> B1)>>
    /\ Axis = <<T10>>
    /\ JustFilled("latency") = <<Num(25, 2)>>
    /\ JustFilled("download") = <<Num(50, 1)>>
    /\ JustFilled("upload") = <<Zero>>
    /\ JustFilled("packet_loss") = <<Zero>>

\* the last period of record k whose metricTime is ts
LastAt(k, ts) ==
    PeriodsOf(metrics[k])[CHOOSE i \in PeriodsAt(k, ts) : \A j \in PeriodsAt(k, ts) : j <= i]

(* C21: both response shapes give the same pivot: a period whose data      *)
(* object is {wan: b} and a period whose data object is b itself (b        *)
(* without a wan key of its own) produce identical values in all five      *)
(* sequences; a period with no data object at all produces zeros.          *)
ClaimC21 ==
    /\ pc = "done" /\ run = 2 => chart_data = first
    /\ Filled =>
           \A i \in 1..Len(Axis) :
               /\ PeriodsAt(idx - 1, Axis[i]) # {}
               /\ "data" \notin DOMAIN LastAt(idx - 1, Axis[i])
               => \A m \in MetricNames : JustFilled(m)[i] = Zero

WitnessC21 ==
    /\ pc = "done"
    /\ run = 2
    /\ PeriodsOf(metrics[1]) = <<Period(T10, B1), Period(T2, "wan" :> B1), "metricTime" :> T1>>
    /\ Axis = <<T1, T10, T2>>
    /\ DictGet(chart_data.download, Sites[1]) = <<Zero, Num(50, 1), Num(50, 1)>>
    /\ DictGet(chart_data.latency, Sites[1]) = <<Zero, Num(25, 2), Num(25, 2)>>
    /\ first = chart_data

\* the keys of an insertion-ordered dict
KeysOf(d) == {d[i].k : i \in 1..Len(d)}

(* C22: for every input, including records that repeat a site identifier   *)
(* or lack one, the five metric mappings have identical key sets, and      *)
(* every key is a display name that occurs in sites.                       *)
ClaimC22 ==
    \A m \in MetricNames :
        /\ KeysOf(chart_data[m]) = KeysOf(chart_data.latency)
        /\ KeysOf(chart_data[m]) \subseteq {Sites[k] : k \in 1..Len(Sites)}

WitnessC22 ==
    /\ pc = "done"
    /\ Len(metrics) = 3
    /\ RecId(1) = RecId(2)
    /\ "siteId" \notin DOMAIN metrics[3]
    /\ sites_data # EmptyObj
    /\ Len(Sites) = 3
    /\ KeysOf(chart_data.uptime) = {Sites[2], Sites[3]}
    /\ Sites[1] \notin KeysOf(chart_data.uptime)

====
